---- MODULE Spec2Model ----
(***************************************************************************)
(* coc-stylua: the binary-path reconciliation flows of the extension       *)
(* (src/src/util.ts, src/src/index.ts) and the formatter invocation        *)
(* (src/unnamed/part_001, imported by both as './stylua').                 *)
(*                                                                         *)
(* JavaScript strings whose content the code inspects are sequences of     *)
(* one-character strings; paths and file names, which the code only        *)
(* compares or passes on, are plain strings.                               *)
(***************************************************************************)
EXTENDS Integers, Sequences, FiniteSets, TLC

VARIABLES
    config,            \* the 'stylua' configuration section
    platform,          \* os.platform()
    cfgFile,           \* a file exists at the configured styluaPath
    stored,            \* a file exists at <storage>/<output filename>
    styluaBinaryPath,  \* index.ts:24, the closure variable of activate()
    activated,         \* activate() registered its command and listener
    flows,             \* the asynchronous flows, each suspended at an await
    openPrompts,       \* 'is available to install' prompts not yet answered
    unheard,           \* the configuration changed before the listener existed
    index,             \* what the release index answers to a getRelease call
    probe,             \* what the binary at the resolved path does on --version
    doc,               \* the document of a format request, a sequence of lines
    ws,                \* the document's workspace folder and its .styluaignore
    child,             \* what the spawned binary has yet to write
    fmt,               \* the format request in progress
    notFoundPrompts    \* 'StyLua not found' prompts not yet answered

extVars == <<config, platform, cfgFile, stored, styluaBinaryPath, activated,
             flows, openPrompts, unheard, index, probe>>

fmtVars == <<doc, ws, child, fmt, notFoundPrompts>>

----------------------------------------------------------------------------
(* Bounds *)

MaxFlows == 3

\* the most 'data' events of the child's standard output
MaxChunks == 2

\* the most 'StyLua not found' prompts open when a further request is made
MaxPrompts == 1

FlowIds == 1..MaxFlows

----------------------------------------------------------------------------
(* JavaScript string primitives *)

\* the value of a missing array element or property
Undefined == <<"<undefined>">>

IsWs(c) == c \in {" ", "\n", "\t"}

RECURSIVE TrimStart(_)
TrimStart(s) == IF s # <<>> /\ IsWs(Head(s)) THEN TrimStart(Tail(s)) ELSE s

\* a trimEnd that drops one trailing whitespace character only
TrimEnd_Once(s) ==
    IF s # <<>> /\ IsWs(s[Len(s)]) THEN SubSeq(s, 1, Len(s) - 1) ELSE s

RECURSIVE TrimEnd(_)
TrimEnd(s) ==
    IF s # <<>> /\ IsWs(s[Len(s)]) THEN TrimEnd(SubSeq(s, 1, Len(s) - 1)) ELSE s

Trim(s) == TrimEnd(TrimStart(s))

RECURSIVE SplitAcc(_, _, _)
SplitAcc(s, sep, cur) ==
    IF s = <<>> THEN <<cur>>
    ELSE IF Head(s) = sep THEN <<cur>> \o SplitAcc(Tail(s), sep, <<>>)
    ELSE SplitAcc(Tail(s), sep, Append(cur, Head(s)))

Split(s, sep) == SplitAcc(s, sep, <<>>)

StartsWith(s, p) == Len(p) <= Len(s) /\ SubSeq(s, 1, Len(p)) = p

----------------------------------------------------------------------------
(* Versions, releases and the release index *)

Latest == <<"l", "a", "t", "e", "s", "t">>

\* version numbers, abbreviated to one character
Versions == {<<"1">>, <<"2">>}

\* json: "none" is the JavaScript value undefined, "error" the body of an error
\* reply of the index (an object without tag_name and assets)
NoRelease == [json |-> "none", tag_name |-> Undefined, assets |-> <<>>]

ErrorBody == [json |-> "error", tag_name |-> Undefined, assets |-> <<>>]

Release(tag, assets) == [json |-> "release", tag_name |-> tag, assets |-> assets]

Releases ==
    { Release(<<"v", "1">>, <<"stylua-1-linux.zip", "stylua-1-win64.zip">>),
      Release(<<"v", "2">>, <<"source.tar.gz", "stylua-linux.zip">>),
      Release(<<"2">>, <<"stylua-macos.zip">>) }

ReleaseLists ==
    { <<>>,
      << Release(<<"v", "2">>, <<"source.tar.gz", "stylua-linux.zip">>),
         Release(<<"v", "1">>, <<"stylua-1-linux.zip", "stylua-1-win64.zip">>) >> }

\* what the network answers to the requests of a getRelease call
NetworkReplies ==
    [fails : {TRUE}, latest : {NoRelease}, releases : {<<>>}]
      \cup [fails : {FALSE}, latest : Releases \cup {ErrorBody}, releases : ReleaseLists]

RECURSIVE FirstMatching(_, _)
FirstMatching(releases, version) ==
    IF releases = <<>> THEN NoRelease
    ELSE IF StartsWith(Head(releases).tag_name, version) THEN Head(releases)
    ELSE FirstMatching(Tail(releases), version)

\* [ok, release]: ok = FALSE when the promise is rejected
getRelease(version, reply) ==
    IF reply.fails THEN [ok |-> FALSE, release |-> NoRelease]
    ELSE IF version = Latest THEN [ok |-> TRUE, release |-> reply.latest]
    ELSE LET v == IF StartsWith(version, <<"v">>) THEN version ELSE <<"v">> \o version
             r == FirstMatching(reply.releases, v)
         IN  IF r = NoRelease THEN [ok |-> FALSE, release |-> NoRelease]
             ELSE [ok |-> TRUE, release |-> r]

Platforms == {"linux", "win32", "aix"}

Supported(p) == p \in {"win32", "linux", "darwin"}

getDownloadOutputFilename(p) == IF p = "win32" THEN "stylua.exe" ELSE "stylua"

getAssetFilenamePattern(p) ==
    CASE p = "win32" -> {"stylua-win64.zip", "stylua-1-win64.zip"}
      [] p = "linux" -> {"stylua-linux.zip", "stylua-1-linux.zip"}
      [] p = "darwin" -> {"stylua-macos.zip", "stylua-1-macos.zip"}
      [] OTHER -> {}

RECURSIVE HasAsset(_, _)
HasAsset(assets, pattern) ==
    assets # <<>> /\ (Head(assets) \in pattern \/ HasAsset(Tail(assets), pattern))

\* the tag compared as it is, with its leading 'v'
TagVersion_NoStrip(tag) == tag

\* release.tag_name.startsWith('v') ? release.tag_name.substr(1) : release.tag_name
TagVersion(tag) == IF StartsWith(tag, <<"v">>) THEN Tail(tag) ELSE tag

\* the early return of util.ts:168 taken whatever the installed version
Satisfies_Any(version, range) == TRUE

\* semver.satisfies(version, range), for ranges that name one version
Satisfies(version, range) ==
    version \in Versions /\ TagVersion(range) = version

\* (await executeStylua(path, ['--version']))?.trim().split(' ')[1]
ParseVersion(stdout) ==
    LET parts == Split(Trim(stdout), " ")
    IN  IF Len(parts) >= 2 THEN parts[2] ELSE Undefined

\* what `stylua --version` prints for version v
VersionOutput(v, eol) == <<"s", "t", "y", "l", "u", "a", " ">> \o v \o eol

\* what exec of '"<path>" --version' calls back with; version is the version of
\* the binary, Undefined for one that prints nothing
ExecResults ==
    { [err |-> TRUE, version |-> Undefined, stdout |-> <<>>],
      [err |-> FALSE, version |-> Undefined, stdout |-> <<>>] }
      \cup { [err |-> FALSE, version |-> v, stdout |-> VersionOutput(v, eol)] :
               v \in Versions, eol \in {<<>>, <<"\n">>} }

\* resolve(stdout) called before reject(err)
executeStylua_ResolveFirst(res) == [ok |-> TRUE, stdout |-> res.stdout]

\* [ok, stdout]: reject(err) precedes resolve(stdout), and the first call settles
executeStylua(res) == [ok |-> ~res.err, stdout |-> res.stdout]

----------------------------------------------------------------------------
(* Configuration and file system *)

CfgPath == "/opt/bin/stylua"

\* the JavaScript value undefined, where a path is expected
NoPath == "undefined"

Configs ==
    [styluaPath : {"", CfgPath},
     checkUpdate : BOOLEAN,
     releaseVersion : {Latest, <<"v", "2">>},
     targetReleaseVersion : {<<>>, <<"1", " ">>}]

getDesiredVersion(cfg) ==
    LET targetVersion == Trim(cfg.targetReleaseVersion)
    IN  IF Len(targetVersion) = 0 THEN cfg.releaseVersion ELSE targetVersion

downloadPath(p) == IF p = "win32" THEN "storage/stylua.exe" ELSE "storage/stylua"

fileExists(path, cf, st, p) ==
    \/ path = CfgPath /\ cf
    \/ path = downloadPath(p) /\ st

\* getDownloadOutputFilename() throws on a platform it does not know
getStyluaPathThrows(cfg, p) == cfg.styluaPath = "" /\ ~Supported(p)

\* a configured path that is missing falls back to the binary in storage
getStyluaPath_Fallback(cfg, cf, st, p) ==
    IF cfg.styluaPath # "" /\ fileExists(cfg.styluaPath, cf, st, p) THEN cfg.styluaPath
    ELSE IF fileExists(downloadPath(p), cf, st, p) THEN downloadPath(p)
    ELSE NoPath

getStyluaPath(cfg, cf, st, p) ==
    IF cfg.styluaPath # "" THEN cfg.styluaPath
    ELSE IF fileExists(downloadPath(p), cf, st, p) THEN downloadPath(p)
    ELSE NoPath

----------------------------------------------------------------------------
(* The asynchronous flows *)

\* kind: who started the flow; pc: the await it is suspended at
\*   exists     util.ts:156  await fileExists(path)
\*   version    util.ts:164  await executeStylua(path, ['--version'])
\*   release    util.ts:176  await getRelease(desiredVersion)
\*   dl_release util.ts:90   await getRelease(version)
\*   dl_fetch   util.ts:101  fetch(asset.browser_download_url)
\*   dl_entries util.ts:112  the archive's 'entry' events
\*   dl_pending the promise of util.ts:100 can no longer be settled
\*   returned / threw        the flow's outer function has completed
IdleFlow ==
    [kind |-> "idle", pc |-> "idle", path |-> NoPath, checkUpdate |-> FALSE,
     currentVersion |-> Undefined, desiredVersion |-> Undefined,
     release |-> NoRelease, entries |-> <<>>,
     download |-> "none", failure |-> "none", result |-> NoPath,
     exec |-> "none", lookup |-> "none",
     errorShown |-> FALSE, warned |-> FALSE, fetched |-> FALSE, prompts |-> 0]

Idle == {f \in FlowIds : flows[f].kind = "idle"}

\* the next free slot
NewFlow == CHOOSE f \in Idle : \A g \in Idle : f <= g

\* downloadStylua up to its first await
StartDownload(rec, cfg) ==
    [rec EXCEPT !.pc = "dl_release", !.download = "running",
                !.desiredVersion = getDesiredVersion(cfg)]

\* ensureStyluaExists up to its first await
StartEnsure(kind, cfg, cf, st, p) ==
    LET rec == [IdleFlow EXCEPT !.kind = kind]
        path == getStyluaPath(cfg, cf, st, p)
    IN  IF getStyluaPathThrows(cfg, p) THEN [rec EXCEPT !.pc = "threw"]
        ELSE IF path = NoPath THEN StartDownload(rec, cfg)
        ELSE [rec EXCEPT !.pc = "exists", !.path = path]

\* ensureStyluaExists returns `result`: the awaiting caller (index.ts:24 or
\* index.ts:35) assigns it; activate() then registers command and listener
Return(f, rec, result) ==
    /\ flows' = [flows EXCEPT ![f] = [rec EXCEPT !.pc = "returned", !.result = result]]
    /\ styluaBinaryPath' = result
    /\ activated' = (activated \/ rec.kind = "activate")

\* index.ts:21-24, activate() up to the first await inside ensureStyluaExists
Activate ==
    /\ ~activated
    /\ flows[1].kind = "idle"
    /\ flows' = [flows EXCEPT ![1] = StartEnsure("activate", config, cfgFile, stored, platform)]
    /\ UNCHANGED <<fmtVars, unheard, index, probe, config, platform, cfgFile, stored, styluaBinaryPath, activated, openPrompts>>

\* The user changes the 'stylua' section; once registered, the listener of
\* index.ts:33-37 calls ensureStyluaExists under the new configuration
ConfigChange ==
    \E c \in Configs \ {config} :
        /\ config' = c
        /\ IF activated
           THEN /\ Idle # {}
                /\ flows' = [flows EXCEPT ![NewFlow] =
                                StartEnsure("configChange", c, cfgFile, stored, platform)]
                /\ UNCHANGED unheard
           ELSE /\ unheard' = TRUE
                /\ UNCHANGED flows
        /\ UNCHANGED <<fmtVars, index, probe, platform, cfgFile, stored, styluaBinaryPath, activated, openPrompts>>

\* index.ts:26-27, the stylua.reinstall command up to its first await
Reinstall ==
    /\ activated
    /\ Idle # {}
    /\ flows' = [flows EXCEPT ![NewFlow] =
                    StartDownload([IdleFlow EXCEPT !.kind = "reinstall"], config)]
    /\ UNCHANGED <<fmtVars, unheard, index, probe, config, platform, cfgFile, stored, styluaBinaryPath, activated, openPrompts>>

\* util.ts:156-164
EnsureExists(f) ==
    LET rec == flows[f] IN
    /\ rec.pc = "exists"
    /\ IF ~fileExists(rec.path, cfgFile, stored, platform)
       THEN Return(f, [rec EXCEPT !.errorShown = TRUE], NoPath)
       ELSE /\ flows' = [flows EXCEPT ![f] =
                           [rec EXCEPT !.pc = "version", !.checkUpdate = config.checkUpdate]]
            /\ UNCHANGED <<styluaBinaryPath, activated>>
    /\ UNCHANGED <<fmtVars, unheard, index, probe, config, platform, cfgFile, stored, openPrompts>>

\* util.ts:164-176 and the catch of util.ts:185-191
EnsureVersion(f) ==
    LET rec == flows[f] IN
    /\ rec.pc = "version"
    /\   LET out == executeStylua(probe)
             currentVersion == ParseVersion(out.stdout)
             desiredVersion == getDesiredVersion(config)
             got == [rec EXCEPT !.exec = "ok", !.currentVersion = currentVersion,
                                !.desiredVersion = desiredVersion]
         IN  IF ~out.ok
             THEN Return(f, [rec EXCEPT !.exec = "failed", !.warned = TRUE], rec.path)
             ELSE IF ~rec.checkUpdate
                     /\ (desiredVersion = Latest \/ Satisfies(currentVersion, desiredVersion))
             THEN Return(f, got, rec.path)
             ELSE /\ flows' = [flows EXCEPT ![f] =
                                 [got EXCEPT !.pc = "release", !.fetched = TRUE]]
                  /\ UNCHANGED <<styluaBinaryPath, activated>>
    /\ UNCHANGED <<fmtVars, unheard, index, probe, config, platform, cfgFile, stored, openPrompts>>

\* util.ts:176-191 and openUpdatePrompt up to its showInformationMessage
EnsureRelease(f) ==
    LET rec == flows[f] IN
    /\ rec.pc = "release"
    /\   LET r == getRelease(rec.desiredVersion, index)
             release == r.release
         IN  IF ~r.ok
             THEN \* console.error(err); release stays undefined
                  /\ Return(f, [rec EXCEPT !.lookup = "failed"], rec.path)
                  /\ UNCHANGED openPrompts
             ELSE IF release.json = "error"
             THEN \* release.tag_name.startsWith throws a TypeError
                  /\ Return(f, [rec EXCEPT !.lookup = "error_body", !.release = release,
                                           !.warned = TRUE], rec.path)
                  /\ UNCHANGED openPrompts
             ELSE IF rec.currentVersion # TagVersion(release.tag_name)
             THEN /\ Return(f, [rec EXCEPT !.lookup = "ok", !.release = release,
                                           !.prompts = @ + 1], rec.path)
                  /\ openPrompts' = openPrompts + 1
             ELSE /\ Return(f, [rec EXCEPT !.lookup = "ok", !.release = release], rec.path)
                  /\ UNCHANGED openPrompts
    /\ UNCHANGED <<fmtVars, unheard, index, probe, config, platform, cfgFile, stored>>

\* util.ts:198-203, the user answers 'Install'
UpdatePromptInstall ==
    /\ openPrompts > 0
    /\ Idle # {}
    /\ openPrompts' = openPrompts - 1
    /\ flows' = [flows EXCEPT ![NewFlow] =
                    StartDownload([IdleFlow EXCEPT !.kind = "prompt"], config)]
    /\ UNCHANGED <<fmtVars, unheard, index, probe, config, platform, cfgFile, stored, styluaBinaryPath, activated>>

\* util.ts:198-203, the user answers 'Later' or dismisses the prompt
UpdatePromptLater ==
    /\ openPrompts > 0
    /\ openPrompts' = openPrompts - 1
    /\ UNCHANGED <<fmtVars, unheard, index, probe, config, platform, cfgFile, stored, styluaBinaryPath, activated, flows>>

----------------------------------------------------------------------------
(* downloadStylua, util.ts:88-124, run under downloadStyLuaVisual *)

\* entry paths of the archives the asset URL may serve
Archives ==
    { <<>>, <<"README.md">>, <<"stylua">>, <<"README.md", "stylua">>, <<"stylua.exe">> }

\* the promise of downloadStyLuaVisual settles and the awaiting caller resumes:
\* util.ts:153-154 (ensureStyluaExists), index.ts:27-28 (stylua.reinstall);
\* the callers of util.ts:201 and index.ts:49 do not wait for it
Settle(f, rec, outcome, st) ==
    LET done == [rec EXCEPT !.download = outcome] IN
    IF outcome = "resolved" /\ rec.kind \notin {"prompt", "notFound"}
    THEN Return(f, done, getStyluaPath(config, cfgFile, st, platform))
    ELSE /\ flows' = [flows EXCEPT ![f] =
                        [done EXCEPT !.pc = IF outcome = "resolved" THEN "returned" ELSE "threw"]]
         /\ UNCHANGED <<styluaBinaryPath, activated>>

\* util.ts:90-100
DlRelease(f) ==
    LET rec == flows[f] IN
    /\ rec.pc = "dl_release"
    /\   LET r == getRelease(rec.desiredVersion, index)
             got == [rec EXCEPT !.release = r.release]
         IN  IF ~r.ok
             THEN /\ Settle(f, [rec EXCEPT !.failure = "release"], "rejected", stored)
                  /\ UNCHANGED stored
             ELSE IF ~Supported(platform)
             THEN /\ Settle(f, [got EXCEPT !.failure = "platform"], "rejected", stored)
                  /\ UNCHANGED stored
             ELSE IF r.release.json = "error"
             THEN \* release.assets is not iterable
                  /\ Settle(f, [got EXCEPT !.failure = "release"], "rejected", stored)
                  /\ UNCHANGED stored
             ELSE IF ~HasAsset(r.release.assets, getAssetFilenamePattern(platform))
             THEN \* the loop ends and the async function returns undefined
                  /\ Settle(f, [got EXCEPT !.failure = "no_asset"], "resolved", stored)
                  /\ UNCHANGED stored
             ELSE \* fs.createWriteStream creates the output file
                  /\ stored' = TRUE
                  /\ flows' = [flows EXCEPT ![f] = [got EXCEPT !.pc = "dl_fetch"]]
                  /\ UNCHANGED <<styluaBinaryPath, activated>>
    /\ UNCHANGED <<fmtVars, unheard, index, probe, config, platform, cfgFile, openPrompts>>

\* util.ts:101-111: nothing handles a rejection of the fetch chain
DlFetch(f) ==
    LET rec == flows[f] IN
    /\ rec.pc = "dl_fetch"
    /\ \/ flows' = [flows EXCEPT ![f] =
                       [rec EXCEPT !.pc = "dl_pending", !.download = "pending",
                                   !.failure = "network"]]
       \/ \E archive \in Archives :
             flows' = [flows EXCEPT ![f] = [rec EXCEPT !.pc = "dl_entries", !.entries = archive]]
    /\ UNCHANGED <<fmtVars, unheard, index, probe, config, platform, cfgFile, stored, styluaBinaryPath, activated, openPrompts>>

\* util.ts:112-119, one 'entry' event, or the end of the archive
DlEntry(f) ==
    LET rec == flows[f] IN
    /\ rec.pc = "dl_entries"
    /\ IF rec.entries = <<>>
       THEN /\ flows' = [flows EXCEPT ![f] =
                           [rec EXCEPT !.pc = "dl_pending", !.download = "pending",
                                       !.failure = "no_entry"]]
            /\ UNCHANGED <<styluaBinaryPath, activated>>
       ELSE IF Head(rec.entries) # getDownloadOutputFilename(platform)
       THEN \* entry.autodrain()
            /\ flows' = [flows EXCEPT ![f] = [rec EXCEPT !.entries = Tail(@)]]
            /\ UNCHANGED <<styluaBinaryPath, activated>>
       ELSE \* entry.pipe(file): 'finish' resolves, 'error' rejects
            \/ Settle(f, [rec EXCEPT !.entries = Tail(@)], "resolved", stored)
            \/ Settle(f, [rec EXCEPT !.entries = Tail(@), !.failure = "extract"],
                      "rejected", stored)
    /\ UNCHANGED <<fmtVars, unheard, index, probe, config, platform, cfgFile, stored, openPrompts>>

----------------------------------------------------------------------------
(* The extension *)

----------------------------------------------------------------------------
(* Documents, positions and byte offsets, index.ts:12-19 *)

\* UTF-8 width of a character
ByteWidth(c) == IF c = "é" THEN 2 ELSE 1

RECURSIVE byteLength(_)
byteLength(text) == IF text = <<>> THEN 0 ELSE ByteWidth(Head(text)) + byteLength(Tail(text))

Docs ==
    { << <<>> >>,
      << <<"a", "b">> >>,
      << <<"é">>, <<"c">> >> }

RECURSIVE getTextFrom(_, _)
getTextFrom(d, i) ==
    IF i > Len(d) THEN <<>>
    ELSE IF i = Len(d) THEN d[i]
    ELSE d[i] \o <<"\n">> \o getTextFrom(d, i + 1)

\* document.getText()
getText(d) == getTextFrom(d, 1)

Pos(l, c) == [line |-> l, character |-> c]

Positions(d) == UNION {{Pos(l - 1, c) : c \in 0..Len(d[l])} : l \in 1..Len(d)}

Before(p, q) == p.line < q.line \/ (p.line = q.line /\ p.character <= q.character)

Ranges(d) == {r \in [start : Positions(d), end : Positions(d)] : Before(r.start, r.end)}

RECURSIVE offsetAt(_, _)
offsetAt(d, p) ==
    IF p.line = 0 THEN p.character
    ELSE Len(d[1]) + 1 + offsetAt(Tail(d), Pos(p.line - 1, p.character))

\* index.ts:12-19
byteOffset(d, p) == byteLength(SubSeq(getText(d), 1, offsetAt(d, p)))

\* index.ts:92-97 and index.ts:77-82
fullDocumentRange(d) == [start |-> Pos(0, 0), end |-> Pos(Len(d) - 1, Len(d[Len(d)]))]

----------------------------------------------------------------------------
(* checkIgnored, part_001:7-25 *)

\* gitignore patterns without wildcards: an anchored pattern names a path
\* from the directory of the ignore file, any other a file or directory name
Pattern(anchored, segs) == [anchored |-> anchored, segs |-> segs]

IsPrefix(p, s) == Len(p) <= Len(s) /\ SubSeq(s, 1, Len(p)) = p

\* ignore().add(contents).ignores(path), path split at its slashes
Ignores(patterns, path) ==
    \E pat \in patterns :
        IF pat.anchored THEN IsPrefix(pat.segs, path)
        ELSE \E i \in 1..Len(path) : <<path[i]>> = pat.segs

PatternSets ==
    { {},
      {Pattern(FALSE, <<"a.lua">>)},
      {Pattern(TRUE, <<"src", "a.lua">>)},
      {Pattern(FALSE, <<"proj">>)},
      {Pattern(FALSE, <<"build">>), Pattern(TRUE, <<"b.lua">>)} }

\* the workspace folder /proj and files in it
Workspaces ==
    [folder : BOOLEAN,
     file : {<<"a.lua">>, <<"src", "a.lua">>, <<"src", "b.lua">>},
     ignoreFile : {"absent", "unreadable", "present"},
     patterns : PatternSets]

\* document.uri, file:///proj/<file>, split at its slashes
Uri(file) == <<"file:", "", "", "proj">> \o file

\* [ignored, error]: the promise's value, and whether the catch block ran
checkIgnored(w) ==
    IF ~w.folder THEN [ignored |-> FALSE, error |-> FALSE]
    ELSE IF w.ignoreFile = "absent" THEN [ignored |-> FALSE, error |-> FALSE]
    ELSE IF w.ignoreFile = "unreadable" THEN [ignored |-> FALSE, error |-> TRUE]
    ELSE [ignored |-> Ignores(w.patterns, Uri(w.file)), error |-> FALSE]

----------------------------------------------------------------------------
(* formatCode, part_001:27-61 *)

\* a parameter the caller left out
NotSupplied == -1

Digit(n) == CASE n = 0 -> "0" [] n = 1 -> "1" [] n = 2 -> "2" [] n = 3 -> "3"
              [] n = 4 -> "4" [] n = 5 -> "5" [] n = 6 -> "6" [] n = 7 -> "7"
              [] n = 8 -> "8" [] n = 9 -> "9"

\* Number.prototype.toString
RECURSIVE toString(_)
toString(n) == IF n < 10 THEN <<Digit(n)>> ELSE toString(n \div 10) \o <<Digit(n % 10)>>

\* if (x) for x?: number
Truthy(n) == n # NotSupplied /\ n # 0

\* part_001:35-44; every argument is a sequence of characters or one word
args(startPos, endPos) ==
    (IF Truthy(startPos) THEN << <<"--range-start">>, toString(startPos) >> ELSE <<>>)
      \o (IF Truthy(endPos) THEN << <<"--range-end">>, toString(endPos) >> ELSE <<>>)
      \o << <<"-">> >>

StdoutChunks == { <<"x", "\n">>, <<" ", "\n">> }

StderrChunks == { <<"e", "r", "r">>, <<"w">> }

RECURSIVE SeqsUpTo(_, _)
SeqsUpTo(S, n) ==
    IF n = 0 THEN {<<>>}
    ELSE SeqsUpTo(S, n - 1) \cup
         {Append(q, x) : q \in {t \in SeqsUpTo(S, n - 1) : Len(t) = n - 1}, x \in S}

\* what a run of the binary writes to its two output streams
Children == [out : SeqsUpTo(StdoutChunks, MaxChunks), err : SeqsUpTo(StderrChunks, 2)]

\* pc: idle, formatting (index.ts:68, awaiting formatCode), done
\* promise: the state of the promise of part_001:34 and the value it holds
\* returned: "array" for the edits below, "undefined" for index.ts:75
IdleFormat ==
    [pc |-> "idle", entry |-> "none", range |-> [start |-> Pos(0, 0), end |-> Pos(0, 0)],
     ignored |-> FALSE, readError |-> FALSE, notFound |-> FALSE,
     startPos |-> NotSupplied, endPos |-> NotSupplied, args |-> <<>>, spawned |-> FALSE,
     output |-> <<>>, closed |-> FALSE, stderr |-> <<>>,
     promise |-> "none", value |-> <<>>,
     returned |-> "none", edits |-> <<>>, formatError |-> FALSE]

\* index.ts:75-88, the provider resumes when the promise of formatCode settles
Resume(rec, promise, value) ==
    LET settled == [rec EXCEPT !.promise = promise, !.value = value, !.pc = "done"]
    IN  IF promise = "rejected"
        THEN [settled EXCEPT !.formatError = TRUE, !.returned = "array"]
        ELSE IF Len(value) = 0
        THEN [settled EXCEPT !.returned = "undefined"]
        ELSE [settled EXCEPT !.returned = "array",
                             !.edits = << [range |-> fullDocumentRange(doc),
                                           newText |-> value] >>]

\* index.ts:40-74, a range format request up to the await of formatCode;
\* index.ts:91-98, a document format request delegates with the full range
Provide ==
    /\ activated
    /\ fmt.pc = "idle"
    /\ \E entry \in {"document", "range"} :
       \E range \in (IF entry = "document" THEN {fullDocumentRange(doc)} ELSE Ranges(doc)) :
         LET rec == [fmt EXCEPT !.entry = entry, !.range = range]
             ig == checkIgnored(ws)
             startPos == byteOffset(doc, range.start)
             endPos == byteOffset(doc, range.end)
         IN  IF styluaBinaryPath = NoPath
             THEN /\ fmt' = [rec EXCEPT !.pc = "done", !.notFound = TRUE, !.returned = "array"]
                  /\ notFoundPrompts' = notFoundPrompts + 1
             ELSE IF ig.ignored
             THEN /\ fmt' = [rec EXCEPT !.pc = "done", !.ignored = TRUE,
                                        !.readError = ig.error, !.returned = "array"]
                  /\ UNCHANGED notFoundPrompts
             ELSE /\ fmt' = [rec EXCEPT !.pc = "formatting", !.readError = ig.error,
                                        !.startPos = startPos, !.endPos = endPos,
                                        !.args = args(startPos, endPos), !.spawned = TRUE,
                                        !.promise = "pending"]
                  /\ UNCHANGED notFoundPrompts
    /\ UNCHANGED <<extVars, doc, ws, child>>

\* part_001:48-50, a 'data' event of the child's standard output
StdoutData ==
    /\ fmt.spawned
    /\ ~fmt.closed
    /\ child.out # <<>>
    /\ child' = [child EXCEPT !.out = Tail(@)]
    /\ fmt' = [fmt EXCEPT !.output = @ \o Head(child.out)]
    /\ UNCHANGED <<extVars, doc, ws, notFoundPrompts>>

\* part_001:51-53, the 'close' event of the child's standard output
StdoutClose ==
    /\ fmt.spawned
    /\ ~fmt.closed
    /\ child.out = <<>>
    /\ fmt' = IF fmt.promise = "pending"
              THEN Resume([fmt EXCEPT !.closed = TRUE], "resolved", TrimEnd(fmt.output))
              ELSE [fmt EXCEPT !.closed = TRUE]
    /\ UNCHANGED <<extVars, doc, ws, child, notFoundPrompts>>

\* part_001:54, a 'data' event of the child's standard error
StderrData ==
    /\ fmt.spawned
    /\ child.err # <<>>
    /\ child' = [child EXCEPT !.err = Tail(@)]
    /\ fmt' = IF fmt.promise = "pending"
              THEN Resume([fmt EXCEPT !.stderr = Append(@, Head(child.err))],
                          "rejected", Head(child.err))
              ELSE [fmt EXCEPT !.stderr = Append(@, Head(child.err))]
    /\ UNCHANGED <<extVars, doc, ws, notFoundPrompts>>

\* index.ts:47-51, the user answers 'Install' to 'StyLua not found': the
\* download is started and nothing waits for it
NotFoundInstall ==
    /\ notFoundPrompts > 0
    /\ Idle # {}
    /\ notFoundPrompts' = notFoundPrompts - 1
    /\ flows' = [flows EXCEPT ![NewFlow] =
                    StartDownload([IdleFlow EXCEPT !.kind = "notFound"], config)]
    /\ UNCHANGED <<unheard, index, probe, config, platform, cfgFile, stored,
                   styluaBinaryPath, activated, openPrompts, doc, ws, child, fmt>>

\* index.ts:47-51, the user dismisses 'StyLua not found'
NotFoundDismiss ==
    /\ notFoundPrompts > 0
    /\ notFoundPrompts' = notFoundPrompts - 1
    /\ UNCHANGED <<extVars, doc, ws, child, fmt>>

\* index.ts:52-88, the provider has returned and the binary's streams are
\* closed; the editor may send the next request, served by a new run
NextRequest ==
    /\ fmt.pc = "done"
    /\ fmt.spawned => (fmt.closed /\ child.err = <<>>)
    /\ notFoundPrompts < MaxPrompts
    /\ fmt' = IdleFormat
    /\ IF fmt.spawned THEN child' \in Children ELSE UNCHANGED child
    /\ UNCHANGED <<extVars, doc, ws, notFoundPrompts>>

\* A format request, for every document, workspace and run of the binary
InitFormat ==
    /\ config = [styluaPath |-> CfgPath, checkUpdate |-> FALSE,
                 releaseVersion |-> Latest, targetReleaseVersion |-> <<>>]
    /\ platform = "linux"
    /\ cfgFile = TRUE
    /\ stored = FALSE
    /\ index = [fails |-> TRUE, latest |-> NoRelease, releases |-> <<>>]
    /\ probe = [err |-> TRUE, version |-> Undefined, stdout |-> <<>>]
    /\ styluaBinaryPath \in {NoPath, CfgPath}
    /\ activated = TRUE
    /\ flows = [f \in FlowIds |-> IdleFlow]
    /\ openPrompts = 0
    /\ unheard = FALSE
    /\ doc \in Docs
    /\ ws \in Workspaces
    /\ child \in Children
    /\ fmt = IdleFormat
    /\ notFoundPrompts = 0

NextFormat ==
    \/ Provide
    \/ StdoutData
    \/ StdoutClose
    \/ StderrData

NoFormat ==
    /\ doc = << <<>> >>
    /\ ws = [folder |-> FALSE, file |-> <<"a.lua">>, ignoreFile |-> "absent", patterns |-> {}]
    /\ child = [out |-> <<>>, err |-> <<>>]
    /\ fmt = IdleFormat
    /\ notFoundPrompts = 0

FlowStep(f) ==
    \/ EnsureExists(f)
    \/ EnsureVersion(f)
    \/ EnsureRelease(f)
    \/ DlRelease(f)
    \/ DlFetch(f)
    \/ DlEntry(f)

\* One activation, under every configuration and environment
Init ==
    /\ config \in Configs
    /\ platform \in Platforms
    /\ cfgFile \in BOOLEAN
    /\ stored \in BOOLEAN
    /\ index \in NetworkReplies
    /\ probe \in ExecResults
    /\ styluaBinaryPath = NoPath
    /\ activated = FALSE
    /\ flows = [f \in FlowIds |-> IdleFlow]
    /\ openPrompts = 0
    /\ unheard = FALSE
    /\ NoFormat

Next ==
    \/ Activate
    \/ UpdatePromptInstall
    \/ UpdatePromptLater
    \/ \E f \in FlowIds : FlowStep(f)

vars == <<extVars, fmtVars>>

Spec == Init /\ [][Next]_vars

\* A session of configuration changes and reinstall commands
InitSession ==
    /\ config \in Configs
    /\ platform = "linux"
    /\ cfgFile = TRUE
    /\ stored \in BOOLEAN
    /\ index \in {r \in NetworkReplies : ~r.fails /\ r.releases # <<>>
                                          /\ r.latest.tag_name = <<"v", "2">>}
    /\ probe \in {r \in ExecResults : ~r.err /\ r.version \in Versions
                                       /\ r.stdout = VersionOutput(r.version, <<"\n">>)}
    /\ styluaBinaryPath = NoPath
    /\ activated = FALSE
    /\ flows = [f \in FlowIds |-> IdleFlow]
    /\ openPrompts = 0
    /\ unheard = FALSE
    /\ NoFormat

NextSession ==
    \/ Next
    \/ ConfigChange
    \/ Reinstall

SpecSession == InitSession /\ [][NextSession]_vars

SpecFormat == InitFormat /\ [][NextFormat]_vars

\* Activation followed by format requests, under a release index that serves
\* the platform's asset
InitRecover ==
    /\ config \in {c \in Configs : c.targetReleaseVersion = <<>>}
    /\ platform = "linux"
    /\ cfgFile \in BOOLEAN
    /\ stored \in BOOLEAN
    /\ index \in {r \in NetworkReplies : ~r.fails /\ r.releases # <<>>
                                          /\ r.latest.tag_name = <<"v", "2">>}
    /\ probe \in {r \in ExecResults : ~r.err /\ r.version \in Versions
                                       /\ r.stdout = VersionOutput(r.version, <<"\n">>)}
    /\ styluaBinaryPath = NoPath
    /\ activated = FALSE
    /\ flows = [f \in FlowIds |-> IdleFlow]
    /\ openPrompts = 0
    /\ unheard = FALSE
    /\ doc = << <<"a", "b">> >>
    /\ ws = [folder |-> FALSE, file |-> <<"a.lua">>, ignoreFile |-> "absent", patterns |-> {}]
    /\ child \in Children
    /\ fmt = IdleFormat
    /\ notFoundPrompts = 0

NextRecover ==
    \/ Next
    \/ NextFormat
    \/ NotFoundInstall
    \/ NotFoundDismiss
    \/ NextRequest

SpecRecover == InitRecover /\ [][NextRecover]_vars

----------------------------------------------------------------------------
(* Properties *)

Ensuring(r) == r.kind \in {"activate", "configChange"}

\* the flow found a binary at the resolved path (util.ts:156 did not return)
BinaryFound(r) == Ensuring(r) /\ r.path # NoPath /\ r.pc \in {"version", "release", "returned"}
                   /\ ~r.errorShown

\* C1: whenever the binary has written to standard error, the promise of
\* formatCode is rejected with that text, and is not resolved with the
\* standard output accumulated so far.
C1_StderrRejects ==
    fmt.stderr # <<>> => fmt.promise = "rejected" /\ fmt.value = fmt.stderr[1]

\* the installed version is the release's tag, with or without a leading 'v'
SameVersion(version, tag) == tag \in {version, <<"v">> \o version}

\* C2: a reconciliation that found a binary, whose --version query succeeded
\* and whose lookup of the "latest" release succeeded, returns the existing
\* path and has opened no prompt when the installed version is the release's
\* tag without its leading 'v', and exactly one prompt when it is not.
C2_PromptOnceOnMismatch ==
    \A f \in FlowIds :
        LET r == flows[f] IN
        (BinaryFound(r) /\ r.pc = "returned" /\ ~probe.err /\ r.lookup = "ok"
           /\ r.desiredVersion = Latest)
        => /\ r.result = r.path
           /\ r.prompts = IF SameVersion(probe.version, r.release.tag_name) THEN 0 ELSE 1

C2_Witness ==
    \E f \in FlowIds :
        LET r == flows[f] IN
        /\ BinaryFound(r) /\ r.pc = "returned" /\ ~probe.err /\ r.lookup = "ok"
        /\ r.desiredVersion = Latest
        /\ probe.version \in Versions
        /\ ~SameVersion(probe.version, r.release.tag_name)
        /\ r.prompts = 1 /\ openPrompts = 1 /\ r.result = r.path

\* C3: with stylua.styluaPath configured and no file at that path, the
\* reconciliation shows an error and yields undefined; no download is started
\* and the binary in storage is not used, whether or not there is one.
C3_MissingConfiguredPath ==
    (config.styluaPath # "" /\ ~cfgFile)
    => /\ \A f \in FlowIds : flows[f].download = "none" /\ ~flows[f].fetched
       /\ styluaBinaryPath = NoPath
       /\ \A f \in FlowIds :
            flows[f].pc \in {"returned", "threw"}
            => /\ flows[f].pc = "returned"
               /\ flows[f].errorShown
               /\ flows[f].result = NoPath

C3_Witness ==
    /\ config.styluaPath # "" /\ ~cfgFile /\ stored
    /\ flows[1].pc = "returned" /\ flows[1].errorShown /\ flows[1].result = NoPath

\* the version check of a returned flow met an error: --version failed, or
\* the release lookup failed or found no matching release
VersionCheckFailed(r) ==
    BinaryFound(r) /\ r.pc = "returned" /\ (probe.err \/ r.lookup = "failed")

\* the index answered the lookup with a body that is no release
NoReleaseBody(r) == BinaryFound(r) /\ r.pc = "returned" /\ r.lookup = "error_body"

\* C4 as stated: every error during the version check leaves the existing
\* path as the result and shows a warning message.
C4_WarningOnEveryError ==
    \A f \in FlowIds :
        VersionCheckFailed(flows[f]) => flows[f].result = flows[f].path /\ flows[f].warned

\* C4: every error during the version check leaves the existing path as the
\* result; the warning message is shown when the --version invocation fails
\* (and when the index answers with a body that is no release), and not when
\* the release lookup fails or finds no matching release, which is only
\* logged to the console.
C4_NonFatalVersionCheck ==
    \A f \in FlowIds :
        (VersionCheckFailed(flows[f]) \/ NoReleaseBody(flows[f]))
        => /\ flows[f].result = flows[f].path
           /\ styluaBinaryPath = flows[f].path
           /\ flows[f].warned = (probe.err \/ NoReleaseBody(flows[f]))

C4_Witness ==
    \E f \in FlowIds :
        /\ VersionCheckFailed(flows[f])
        /\ flows[f].lookup = "failed" /\ flows[f].fetched
        /\ ~flows[f].warned
        /\ flows[f].result = CfgPath

\* the installed binary's version satisfies the desired version
Satisfied(version, desired) == version \in Versions /\ SameVersion(version, desired)

\* C5 as stated: with stylua.checkUpdate false and a binary at the resolved
\* path, the reconciliation returns that path, fetches no release and opens
\* no prompt, whatever the desired and the installed version.
C5_NeverFetches ==
    \A f \in FlowIds :
        (BinaryFound(flows[f]) /\ ~config.checkUpdate)
        => /\ ~flows[f].fetched
           /\ flows[f].prompts = 0
           /\ (flows[f].pc = "returned" => flows[f].result = flows[f].path)

\* C5: with stylua.checkUpdate false and a binary at the resolved path, the
\* reconciliation returns that path; it fetches no release and opens no prompt
\* when the desired version is "latest", when the installed version satisfies
\* the desired version or when --version fails, and fetches the desired
\* release otherwise.
C5_FetchesOnlyWhenUnsatisfied ==
    \A f \in FlowIds :
        LET r == flows[f]
            desired == getDesiredVersion(config)
            settled == desired = Latest \/ Satisfied(probe.version, desired) \/ probe.err
        IN  (BinaryFound(r) /\ ~config.checkUpdate /\ r.pc = "returned")
            => /\ r.result = r.path
               /\ r.fetched = ~settled
               /\ (settled => r.prompts = 0)

C5_Witness ==
    \E f \in FlowIds :
        LET r == flows[f] IN
        /\ BinaryFound(r) /\ ~config.checkUpdate /\ r.pc = "returned"
        /\ getDesiredVersion(config) = Latest
        /\ ~probe.err
        /\ index.latest.json = "release"
        /\ ~SameVersion(probe.version, index.latest.tag_name)
        /\ ~r.fetched /\ r.prompts = 0 /\ r.result = r.path

\* C6: an install attempt that met a failure (network error on the asset
\* fetch, no asset for the platform, archive without the expected entry,
\* extraction error) has settled as rejected: it is neither resolved nor left
\* with a promise nothing will settle.
C6_FailuresReject ==
    \A f \in FlowIds :
        flows[f].failure \in {"network", "no_asset", "no_entry", "extract"}
        => flows[f].download = "rejected"

\* t is s without its trailing whitespace
TrailingTrimmed(s, t) ==
    /\ Len(t) <= Len(s)
    /\ SubSeq(s, 1, Len(t)) = t
    /\ \A i \in (Len(t) + 1)..Len(s) : s[i] \in {" ", "\n", "\t"}
    /\ (t # <<>> => t[Len(t)] \notin {" ", "\n", "\t"})

\* the one edit that replaces lines 0..N-1 of the document by text
WholeDocumentEdit(edits, text) ==
    /\ Len(edits) = 1
    /\ edits[1].range.start = [line |-> 0, character |-> 0]
    /\ edits[1].range.end.line = Len(doc) - 1
    /\ edits[1].range.end.character = Len(doc[Len(doc)])
    /\ edits[1].newText = text

\* C7 as stated: a whole-document request for which the binary produced
\* non-empty output returns one edit, spanning the document, with the output
\* less its trailing whitespace.
C7_EditForNonEmptyOutput ==
    (fmt.pc = "done" /\ fmt.entry = "document" /\ fmt.promise = "resolved"
       /\ fmt.output # <<>>)
    => /\ fmt.returned = "array"
       /\ \E t \in {fmt.value} : TrailingTrimmed(fmt.output, t) /\ WholeDocumentEdit(fmt.edits, t)

\* C7: a request (whole document, or any range) that ran the binary, saw
\* nothing on standard error before standard output closed, and got output
\* that is not only whitespace returns one edit, from line 0 column 0 to the
\* end of line N-1, with the output less its trailing whitespace.
C7_EditSpansDocument ==
    (fmt.pc = "done" /\ fmt.promise = "resolved"
       /\ \E i \in 1..Len(fmt.output) : fmt.output[i] \notin {" ", "\n", "\t"})
    => /\ fmt.returned = "array"
       /\ \E t \in {fmt.value} : TrailingTrimmed(fmt.output, t) /\ WholeDocumentEdit(fmt.edits, t)

C7_Witness ==
    /\ fmt.pc = "done" /\ fmt.entry = "range" /\ fmt.promise = "resolved"
    /\ Len(doc) = 2
    /\ fmt.range = [start |-> [line |-> 0, character |-> 1], end |-> [line |-> 1, character |-> 0]]
    /\ fmt.output = <<" ", "\n", "x", "\n">>
    /\ WholeDocumentEdit(fmt.edits, <<" ", "\n", "x">>)
    /\ fmt.edits[1].range.end = [line |-> 1, character |-> 1]

\* C8: the binary is spawned with '--range-start S' and '--range-end E' for
\* the byte offsets S and E of the request's range, whatever their value,
\* followed by '-'.
C8_RangeFlagsPresent ==
    fmt.spawned
    => fmt.args = << <<"--range-start">>, toString(byteOffset(doc, fmt.range.start)),
                     <<"--range-end">>, toString(byteOffset(doc, fmt.range.end)),
                     <<"-">> >>

\* C9: the request is treated as ignored exactly when the document is in a
\* workspace folder whose .styluaignore is read and has a pattern matching
\* the file's path relative to that folder.
C9_IgnoredIffPatternMatches ==
    (fmt.pc # "idle" /\ ~fmt.notFound)
    => (fmt.ignored <=> (ws.folder /\ ws.ignoreFile = "present"
                           /\ Ignores(ws.patterns, ws.file)))

\* every flow that was started has run to its end
AllCompleted == activated /\ \A f \in FlowIds : flows[f].pc \in {"idle", "returned"}

\* the paths the two resolvers yield under the present configuration and
\* files: getStyluaPath, and ensureStyluaExists for a path that exists or not
ResolvedNow ==
    LET path == getStyluaPath(config, cfgFile, stored, platform)
    IN  {path, IF fileExists(path, cfgFile, stored, platform) THEN path ELSE NoPath}

\* C10: once all started flows have completed, styluaBinaryPath is the path
\* resolved under the most recent configuration and file system state (here
\* for the sessions in which the listener heard every configuration change).
C10_LastChangeWins == (AllCompleted /\ ~unheard) => styluaBinaryPath \in ResolvedNow

\* a download started from the 'StyLua not found' prompt wrote the binary
InstalledFromPrompt ==
    \E f \in FlowIds :
        /\ flows[f].kind = "notFound"
        /\ flows[f].pc = "returned"
        /\ flows[f].download = "resolved"
        /\ flows[f].failure = "none"

\* C11: a format request made after a download started from the 'StyLua not
\* found' prompt has completed successfully finds styluaBinaryPath defined:
\* it runs the formatter and does not show the prompt again.
C11_RecoversAfterInstall ==
    [][(InstalledFromPrompt /\ fmt.pc = "idle" /\ fmt'.pc # "idle")
         => (~fmt'.notFound /\ (~fmt'.ignored => fmt'.spawned))]_vars

====
